---- MODULE Spec2Model ----
(***************************************************************************)
(* Payment reconciliation engine of the Solana payment verification        *)
(* system: SolanaVerifier (solana-verify.js).                              *)
(*                                                                         *)
(* Time is in milliseconds (Date.now()); blockTime values are in seconds.  *)
(* Lamport amounts are integers.  Decimal SOL quantities (amountSol,       *)
(* Solscan's transfer amounts) are kept in fixed point with nine decimals, *)
(* so that x * LAMPORTS_PER_SOL is the number of lamports of x; floating   *)
(* point rounding is not modelled.                                         *)
(*                                                                         *)
(* JavaScript runs every handler to completion up to its next await, so    *)
(* one action is the code between two awaits of one checkPaymentStatus     *)
(* call; calls, the sweep and the clock interleave at the awaits.          *)
(*                                                                         *)
(* The specifications share the actions.  Spec interleaves several calls   *)
(* on one payment with the sweep and the expiry and retention deadlines;   *)
(* SpecStore keeps several payments of several users in the store; both    *)
(* use few shapes of adapter response.  SpecMatching runs one call at a    *)
(* time on one payment and draws the adapter responses from the full sets  *)
(* of shapes (lists, amounts around the tolerance, block times around the  *)
(* creation second, failed and outgoing transactions).                     *)
(***************************************************************************)
EXTENDS Integers, Sequences, FiniteSets, TLC

\* ---------------------------------------------------------------- bounds
MaxIntents == 2     \* payment requests created in one run
MaxCalls == 2       \* checkPaymentStatus calls in flight at once
MaxTicks == 2       \* clock advances in one run
MaxTxs == 2         \* transactions in one adapter response (the code asks for 10)
MaxFirings == 32    \* callbacks of the bot's interval timer in one run

\* ---------------------------------------------------- program constants
LAMPORTS_PER_SOL == 1000000000
TTL == 30 * 60 * 1000
RETENTION == 24 * 60 * 60 * 1000
TOLERANCE == 1000
MAX_CHECKS == 30
SOL_TOLERANCE == LAMPORTS_PER_SOL \div 10000   \* 0.0001 SOL
MS_PER_SEC == 1000

Treasury == "treasury"
Other == "other"

StartTimes == {1000}
TickSteps == {TTL, RETENTION}
ShortSteps == {500}
ClockSkews == {0, 1}
UserIds == {"", "u1", "u2"}
AmountsSol == {0, 0 - 500, 500, 1500000000}

NoTime == 0 - 1
NoSig == 0
Calls == 1..MaxCalls

VARIABLES
    now,        \* Date.now()
    ticks,      \* number of clock advances so far
    payments,   \* the payment objects ever created, by payment id
    stored,     \* keys of this.pendingPayments
    calls,      \* the checkPaymentStatus calls
    ev,         \* the last step: the response it examined, the result it returned
    bot         \* the periodic check of telegram-bot.js

vars == <<now, ticks, payments, stored, calls, ev, bot>>

Abs(x) == IF x < 0 THEN 0 - x ELSE x

\* ev of a step that answers no call
Event(kind, id) ==
    [kind |-> kind, c |-> 0, id |-> id, data |-> <<>>, result |-> "none",
     solscanCalls |-> 0, rpcCalls |-> 0]

NoEv == Event("none", 0)

IdleCall == [pc |-> "idle", paymentId |-> 0, todo |-> <<>>,
             solscanCalls |-> 0, rpcCalls |-> 0]

\* startPaymentCheck has not been called
NoPaymentCheck == [interval |-> "none", checkCount |-> 0, awaiting |-> 0]

Init ==
    /\ bot = NoPaymentCheck
    /\ now \in StartTimes
    /\ ticks = 0
    /\ payments = <<>>
    /\ stored = {}
    /\ calls = [c \in Calls |-> IdleCall]
    /\ ev = NoEv

\* ------------------------------------------------------------- the clock
Tick(steps) ==
    /\ ticks < MaxTicks
    /\ \E d \in steps : now' = now + d
    /\ ticks' = ticks + 1
    /\ ev' = NoEv
    /\ UNCHANGED <<payments, stored, calls, bot>>

\* ------------------------------------------------- createPaymentRequest
ValidRequest_ZeroAllowed(userId, amountSol) == userId # "" /\ amountSol >= 0

\* the two validation tests; a missing userId is "", a missing amountSol is 0
ValidRequest(userId, amountSol) == userId # "" /\ amountSol > 0

NewPayment(userId, amountSol, t1, t2) ==
    [userId |-> userId,
     amountLamports |-> amountSol,
     status |-> "pending",
     createdAt |-> t1,
     expiresAt |-> t2 + TTL,
     confirmedAt |-> NoTime,
     transactionSignature |-> NoSig]

CreatePaymentRequest(userIds, amounts, skews, limit) ==
    \E userId \in userIds, amountSol \in amounts, skew \in skews :
        IF ValidRequest(userId, amountSol)
        THEN /\ Len(payments) < limit
             /\ payments' = Append(payments,
                                NewPayment(userId, amountSol, now, now + skew))
             /\ stored' = stored \cup {Len(payments) + 1}
             /\ now' = now + skew
             /\ ev' = Event("create", Len(payments) + 1)
             /\ UNCHANGED <<ticks, calls, bot>>
        ELSE /\ skew = CHOOSE k \in skews : TRUE
             /\ ev' = [Event("createError", 0) EXCEPT
                        !.data = <<[userId |-> userId, amountSol |-> amountSol]>>]
             /\ UNCHANGED <<now, ticks, payments, stored, calls, bot>>

\* ------------------------------------------------ cleanupExpiredPayments
ShouldRemove_ConfirmedOnly(p, t) ==
    /\ p.status = "confirmed"
    /\ t - p.createdAt > RETENTION

ShouldRemove_PastExpiry(p, t) ==
    /\ p.status = "expired" \/ p.status = "confirmed" \/ t > p.expiresAt
    /\ t - p.createdAt > RETENTION

ShouldRemove_AnyStatus(p, t) == t - p.createdAt > RETENTION

ShouldRemove(p, t) ==
    /\ p.status = "expired" \/ p.status = "confirmed"
    /\ t - p.createdAt > RETENTION

CleanupExpiredPayments ==
    /\ stored' = {id \in stored : ~ShouldRemove(payments[id], now)}
    /\ ev' = Event("cleanup", 0)
    /\ UNCHANGED <<now, ticks, payments, calls, bot>>

\* ------------------------------------------------ getUserPendingPayments
IsPendingOf_AnyStatus(p, userId) == p.userId = userId

\* the filter of getUserPendingPayments
IsPendingOf(p, userId) == p.userId = userId /\ p.status = "pending"

\* the object returned for a payment; amountSol is amountLamports /
\* LAMPORTS_PER_SOL in fixed point, and the ISO string of a time is the time
Projection(id) ==
    [paymentId |-> id,
     userId |-> payments[id].userId,
     amountSol |-> payments[id].amountLamports,
     createdAt |-> payments[id].createdAt,
     expiresAt |-> payments[id].expiresAt]

\* Object.values(this.pendingPayments) in insertion order, filtered and mapped
PendingPaymentsOf(userId) ==
    LET ids == SelectSeq([i \in 1..Len(payments) |-> i],
                         LAMBDA i : i \in stored /\ IsPendingOf(payments[i], userId))
    IN  [k \in DOMAIN ids |-> Projection(ids[k])]

GetUserPendingPayments(userIds) ==
    /\ \E userId \in userIds :
        ev' = [Event("pending", 0) EXCEPT
                !.data = <<[userId |-> userId, list |-> PendingPaymentsOf(userId)]>>]
    /\ UNCHANGED <<now, ticks, payments, stored, calls, bot>>

\* ------------------------------------------------------ adapter inputs
CreationSecond(p) == p.createdAt \div MS_PER_SEC

\* blockTime values around the second in which the payment was created
BlockTimes(p) == {CreationSecond(p) - 1, CreationSecond(p), CreationSecond(p) + 1}

TokenDiffs == {0 - 1000, 0 - 999, 999, 1000}
SolDiffs == {0, 999, 1000, 50000, 99999, 100000}
RpcDiffs == {0 - 1000, 0 - 999, 0, 999, 1000}

SolscanTx(b, st, tr) == [blockTime |-> b, status |-> st, tokenTransfers |-> tr]
Transfer(dest, amount) == [destination |-> dest, amount |-> amount]

\* entries of Solscan's account/transactions response, without their txHash
SolscanTxs(p, rich) ==
    LET a == p.amountLamports
        late == CreationSecond(p) + 1
    IN  {SolscanTx(late, "Success", <<Transfer(Treasury, a)>>),
         SolscanTx(late, "Success", <<>>)}
        \cup IF ~rich THEN {} ELSE
        {SolscanTx(b, "Success", <<Transfer(Treasury, a)>>) : b \in BlockTimes(p)}
        \cup {SolscanTx(b, "Success", <<>>) : b \in BlockTimes(p)}
        \cup {SolscanTx(late, "Success", <<Transfer(Treasury, a + d)>>) :
                d \in {x \in TokenDiffs : a + x >= 0}}
        \cup {SolscanTx(late, "Fail", <<Transfer(Treasury, a)>>),
              SolscanTx(late, "Success", <<Transfer(Other, a)>>)}

\* lengths of a response array: up to MaxTxs entries where the scan order is
\* examined, at most one entry where calls interleave
ResponseLengths(rich) == IF rich THEN 0..MaxTxs ELSE 0..1

\* the response array: the txHash of an entry is its place in the delivery order
SolscanResponses(p, rich) ==
    UNION {{[k \in 1..n |-> [txHash |-> k, blockTime |-> f[k].blockTime,
                             status |-> f[k].status,
                             tokenTransfers |-> f[k].tokenTransfers]] :
                f \in [1..n -> SolscanTxs(p, rich)]} : n \in ResponseLengths(rich)}

Instruction(ty, dest, amount) ==
    [type |-> ty, params |-> [destination |-> dest, amount |-> amount]]
Detail(st, signer, instrs) ==
    [status |-> st, signer |-> signer, parsedInstruction |-> instrs]

\* responses of Solscan's transaction/<txHash> endpoint
SolscanDetails(p, rich) ==
    LET a == p.amountLamports
    IN  {Detail("Success", <<Other>>, <<Instruction("transfer", Treasury, a)>>),
         Detail("Success", <<Other>>, <<>>)}
        \cup IF ~rich THEN {} ELSE
        {Detail("Success", <<Other>>, <<Instruction("transfer", Treasury, a + d)>>) :
            d \in SolDiffs}
        \cup {Detail("Fail", <<Other>>, <<Instruction("transfer", Treasury, a)>>),
              Detail("Success", <<Treasury>>, <<Instruction("transfer", Treasury, a)>>),
              Detail("Success", <<Other>>, <<Instruction("transfer", Other, a)>>),
              Detail("Success", <<Other>>, <<Instruction("createAccount", Treasury, a)>>)}

\* the record of a list entry whose transaction/<txHash> response is not fixed
\* by the entry
AnyDetail == Detail("any", <<>>, <<>>)

\* list entries together with what transaction/<txHash> returns for them
LedgerTx(b, st, tr, d) ==
    [blockTime |-> b, status |-> st, tokenTransfers |-> tr, detail |-> d]

LedgerTxs(p) ==
    LET a == p.amountLamports
        late == CreationSecond(p) + 1
        solTransfer == Detail("Success", <<Other>>, <<Instruction("transfer", Treasury, a)>>)
        nothing == Detail("Success", <<Other>>, <<>>)
        outgoing == Detail("Success", <<Treasury>>, <<Instruction("transfer", Treasury, a)>>)
    IN  {LedgerTx(late, "Success", <<Transfer(Treasury, a)>>, nothing),
         LedgerTx(late, "Success", <<>>, solTransfer),
         LedgerTx(late, "Success", <<>>, nothing),
         LedgerTx(late, "Success", <<>>, outgoing),
         LedgerTx(CreationSecond(p) - 1, "Success", <<>>, solTransfer)}

LedgerResponses(p) ==
    UNION {{[k \in 1..n |-> [txHash |-> k, blockTime |-> f[k].blockTime,
                             status |-> f[k].status,
                             tokenTransfers |-> f[k].tokenTransfers,
                             detail |-> f[k].detail]] :
                f \in [1..n -> LedgerTxs(p)]} : n \in 0..MaxTxs}

\* responses of getSignaturesForAddress: the signature is the place in the list
RpcSignatures(p, rich) ==
    UNION {{[k \in 1..n |-> [signature |-> k, blockTime |-> f[k]]] :
                f \in [1..n -> IF rich THEN BlockTimes(p) ELSE {CreationSecond(p) + 1}]} :
            n \in ResponseLengths(rich)}

Account(key, change) == [key |-> key, change |-> change]
RpcTx(present, err, accounts) == [present |-> present, err |-> err, accounts |-> accounts]

\* responses of getTransaction; change is postBalances[i] - preBalances[i]
RpcTxs(p, rich) ==
    LET a == p.amountLamports
    IN  {RpcTx(TRUE, FALSE, <<Account(Other, 0 - (a + 5000)), Account(Treasury, a)>>),
         RpcTx(FALSE, FALSE, <<>>)}
        \cup IF ~rich THEN {} ELSE
        {RpcTx(TRUE, FALSE, <<Account(Other, 0 - (a + d + 5000)), Account(Treasury, a + d)>>) :
            d \in RpcDiffs}
        \cup {
              RpcTx(TRUE, TRUE, <<Account(Other, 0 - 5000), Account(Treasury, a)>>),
              RpcTx(TRUE, FALSE, <<Account(Other, 0 - (a + 5000)), Account(Other, a)>>),
              RpcTx(TRUE, FALSE, <<Account(Treasury, 0 - 400), Account(Other, 0 - 4600)>>),
              RpcTx(TRUE, FALSE, <<Account(Other, 0 - 5000), Account(Treasury, 0)>>)}

\* ------------------------------------------------- checkPaymentStatus
Prelude_NoExpiry(p, t) ==
    IF p.status = "confirmed" THEN "confirmed" ELSE "query"

Prelude_ExpiryFirst(p, t) ==
    IF t > p.expiresAt THEN "expired"
    ELSE IF p.status = "confirmed" THEN "confirmed"
    ELSE "query"

\* the checks both adapters make before they query
Prelude(p, t) ==
    IF p.status = "confirmed" THEN "confirmed"
    ELSE IF t > p.expiresAt THEN "expired"
    ELSE "query"

Confirmed_NoSignature(p, t, sig) ==
    [p EXCEPT !.status = "confirmed", !.confirmedAt = t]

\* the three writes of a match
Confirmed(p, t, sig) ==
    [p EXCEPT !.status = "confirmed", !.confirmedAt = t, !.transactionSignature = sig]

\* the call returns r (or throws, r = "NotFound") to its caller
Finish(c, kind, id, data, r) ==
    /\ calls' = [calls EXCEPT ![c] = IdleCall]
    /\ ev' = [kind |-> kind, c |-> c, id |-> id, data |-> data, result |-> r,
              solscanCalls |-> calls[c].solscanCalls, rpcCalls |-> calls[c].rpcCalls]

\* the call sends a request and awaits the response at pc
Await(c, kind, id, data, pc, todo) ==
    LET sent == [pc |-> pc, paymentId |-> id, todo |-> todo,
                 solscanCalls |-> IF pc \in {"solscanList", "solscanDetail"}
                                  THEN calls[c].solscanCalls + 1
                                  ELSE calls[c].solscanCalls,
                 rpcCalls |-> IF pc \in {"rpcSigs", "rpcTx"}
                              THEN calls[c].rpcCalls + 1
                              ELSE calls[c].rpcCalls]
    IN  /\ calls' = [calls EXCEPT ![c] = sent]
        /\ ev' = [kind |-> kind, c |-> c, id |-> id, data |-> data, result |-> "none",
                  solscanCalls |-> sent.solscanCalls, rpcCalls |-> sent.rpcCalls]

Found_EverCreated(id) == id \in DOMAIN payments

\* this.pendingPayments[paymentId] is a payment
Found(id) == id \in stored

\* an adapter method up to its first await: the lookup, the checks before the
\* query and the request.  When the lookup throws in checkPaymentStatusViaSolscan,
\* checkPaymentStatus calls checkPaymentStatusViaRPC, which throws again.
EnterAdapter(c, kind, id, pc) ==
    IF ~Found(id)
    THEN /\ Finish(c, kind, id, <<>>, "NotFound")
         /\ UNCHANGED payments
    ELSE LET o == Prelude(payments[id], now) IN
         IF o = "confirmed"
         THEN /\ Finish(c, kind, id, <<>>, "true")
              /\ UNCHANGED payments
         ELSE IF o = "expired"
         THEN /\ Finish(c, kind, id, <<>>, "false")
              /\ payments' = [payments EXCEPT ![id].status = "expired"]
         ELSE /\ Await(c, kind, id, <<>>, pc, <<>>)
              /\ UNCHANGED payments

\* checkPaymentStatus up to the first await of checkPaymentStatusViaSolscan
StartCheck(c) ==
    /\ calls[c].pc = "idle"
    /\ \E id \in 1..(Len(payments) + 1) : EnterAdapter(c, "start", id, "solscanList")
    /\ UNCHANGED <<now, ticks, stored, bot>>

\* the catch block of checkPaymentStatusViaSolscan: checkPaymentStatusViaRPC
\* from its top
FallBackToRPC(c) ==
    EnterAdapter(c, "solscanFail", calls[c].paymentId, "rpcSigs")

TokenAmountMatches(amountReceived, p) ==
    Abs(amountReceived - p.amountLamports) < TOLERANCE

SolAmountMatches(amountReceived, p) ==
    Abs(amountReceived - p.amountLamports) < SOL_TOLERANCE

BalanceChangeMatches_Inclusive(balanceChange, p) ==
    Abs(balanceChange - p.amountLamports) <= TOLERANCE

BalanceChangeMatches(balanceChange, p) ==
    Abs(balanceChange - p.amountLamports) < TOLERANCE

SolscanRecent(blockTime, p) == ~(blockTime < CreationSecond(p))

RpcRecent(blockTime, p) == blockTime * MS_PER_SEC >= p.createdAt

TokenTransferMatch(tx, p) ==
    /\ SolscanRecent(tx.blockTime, p)
    /\ tx.status = "Success"
    /\ \E i \in DOMAIN tx.tokenTransfers :
        /\ tx.tokenTransfers[i].destination = Treasury
        /\ TokenAmountMatches(tx.tokenTransfers[i].amount, p)

FirstTokenMatch_Last(data, p) ==
    LET hits == {k \in DOMAIN data : TokenTransferMatch(data[k], p)}
    IN  IF hits = {} THEN 0 ELSE CHOOSE k \in hits : \A j \in hits : k >= j

\* the first loop over response.data: the first entry with a matching token transfer
FirstTokenMatch(data, p) ==
    LET hits == {k \in DOMAIN data : TokenTransferMatch(data[k], p)}
    IN  IF hits = {} THEN 0 ELSE CHOOSE k \in hits : \A j \in hits : k <= j

\* what transaction/<txHash> returns for a list entry, when the entry says so
LedgerDetail(tx) == IF "detail" \in DOMAIN tx THEN tx.detail ELSE AnyDetail

\* the entries the second loop over response.data asks the details of
SolscanRelevant(data, p) ==
    LET recent == SelectSeq(data, LAMBDA tx : SolscanRecent(tx.blockTime, p))
    IN  [k \in DOMAIN recent |->
            [txHash |-> recent[k].txHash, blockTime |-> recent[k].blockTime,
             detail |-> LedgerDetail(recent[k])]]

DetailMatch(d, p) ==
    /\ d.status = "Success"
    /\ \A i \in DOMAIN d.signer : d.signer[i] # Treasury
    /\ \E i \in DOMAIN d.parsedInstruction :
        /\ d.parsedInstruction[i].type = "transfer"
        /\ d.parsedInstruction[i].params.destination = Treasury
        /\ SolAmountMatches(d.parsedInstruction[i].params.amount, p)

RpcTxMatch_IgnoresErr(tx, p) ==
    /\ tx.present
    /\ \E i \in DOMAIN tx.accounts :
        /\ tx.accounts[i].key = Treasury
        /\ BalanceChangeMatches(tx.accounts[i].change, p)

RpcTxMatch(tx, p) ==
    /\ tx.present
    /\ ~tx.err
    /\ \E i \in DOMAIN tx.accounts :
        /\ tx.accounts[i].key = Treasury
        /\ BalanceChangeMatches(tx.accounts[i].change, p)

ScanStep_LedgerAfterNoMatch(c, kind, data, matches, sig, pc, rest) ==
    LET id == calls[c].paymentId IN
    IF matches
    THEN /\ payments' = [payments EXCEPT ![id] = Confirmed(payments[id], now, sig)]
         /\ Finish(c, kind, id, data, "true")
    ELSE /\ UNCHANGED payments
         /\ IF rest = <<>> THEN Await(c, kind, id, data, "rpcSigs", <<>>)
            ELSE Await(c, kind, id, data, pc, rest)

\* a scan step: the candidate is the match, or the scan goes on with the rest
ScanStep(c, kind, data, matches, sig, pc, rest) ==
    LET id == calls[c].paymentId IN
    IF matches
    THEN /\ payments' = [payments EXCEPT ![id] = Confirmed(payments[id], now, sig)]
         /\ Finish(c, kind, id, data, "true")
    ELSE /\ UNCHANGED payments
         /\ IF rest = <<>> THEN Finish(c, kind, id, data, "false")
            ELSE Await(c, kind, id, data, pc, rest)

\* the response of account/transactions arrives
SolscanListResponse(c, rich) ==
    /\ calls[c].pc = "solscanList"
    /\ LET p == payments[calls[c].paymentId]
       IN  \/ FallBackToRPC(c)
           \/ \E data \in SolscanResponses(p, rich) :
                LET k == FirstTokenMatch(data, p)
                IN  ScanStep(c, "solscanList", data, k # 0, k,
                             "solscanDetail", SolscanRelevant(data, p))
    /\ UNCHANGED <<now, ticks, stored, bot>>

\* the same, with entries that carry the ledger's record of the transaction
SolscanLedgerListResponse(c) ==
    /\ calls[c].pc = "solscanList"
    /\ LET p == payments[calls[c].paymentId]
       IN  \/ FallBackToRPC(c)
           \/ \E data \in LedgerResponses(p) :
                LET k == FirstTokenMatch(data, p)
                IN  ScanStep(c, "solscanList", data, k # 0, k,
                             "solscanDetail", SolscanRelevant(data, p))
    /\ UNCHANGED <<now, ticks, stored, bot>>

\* the response of transaction/<txHash> arrives, for the head of todo
SolscanDetailResponse(c, rich) ==
    /\ calls[c].pc = "solscanDetail"
    /\ LET p == payments[calls[c].paymentId]
           tx == Head(calls[c].todo)
       IN  \/ FallBackToRPC(c)
           \/ \E d \in IF tx.detail = AnyDetail THEN SolscanDetails(p, rich)
                       ELSE {tx.detail} :
                ScanStep(c, "solscanDetail", <<[tx |-> tx, detail |-> d]>>,
                         DetailMatch(d, p), tx.txHash,
                         "solscanDetail", Tail(calls[c].todo))
    /\ UNCHANGED <<now, ticks, stored, bot>>

RpcFailureResult_Throws == "error"

\* what the catch block of checkPaymentStatusViaRPC returns
RpcFailureResult == "false"

\* the response of getSignaturesForAddress arrives
RpcSignaturesResponse(c, rich) ==
    /\ calls[c].pc = "rpcSigs"
    /\ LET id == calls[c].paymentId
           p == payments[id]
       IN  \/ /\ Finish(c, "rpcFail", id, <<>>, RpcFailureResult)
              /\ UNCHANGED payments
           \/ \E sigs \in RpcSignatures(p, rich) :
                ScanStep(c, "rpcSigs", sigs, FALSE, NoSig, "rpcTx",
                         SelectSeq(sigs, LAMBDA s : RpcRecent(s.blockTime, p)))
    /\ UNCHANGED <<now, ticks, stored, bot>>

\* the response of getTransaction arrives, for the head of todo
RpcTransactionResponse(c, rich) ==
    /\ calls[c].pc = "rpcTx"
    /\ LET id == calls[c].paymentId
           p == payments[id]
           sig == Head(calls[c].todo)
       IN  \/ /\ Finish(c, "rpcFail", id, <<>>, RpcFailureResult)
              /\ UNCHANGED payments
           \/ \E tx \in RpcTxs(p, rich) :
                ScanStep(c, "rpcTx", <<[sig |-> sig, tx |-> tx]>>,
                         RpcTxMatch(tx, p), sig.signature,
                         "rpcTx", Tail(calls[c].todo))
    /\ UNCHANGED <<now, ticks, stored, bot>>

\* the request the call awaits is never answered: neither axios.get nor the
\* Connection is given a timeout, so the awaited promise never settles
AdapterNeverResponds(c) ==
    /\ calls[c].pc \in {"solscanList", "solscanDetail", "rpcSigs", "rpcTx"}
    /\ calls' = [calls EXCEPT ![c].pc = "hung"]
    /\ ev' = [Event("hang", calls[c].paymentId) EXCEPT !.c = c]
    /\ UNCHANGED <<now, ticks, payments, stored, bot>>

\* ------------------------------- GET /api/payment/status/:paymentId
\* what the handler answers once its checkPaymentStatus call has ended with r:
\* an error thrown by the call is caught and answered with 500 and the
\* message of the error; otherwise the handler reads the store
StatusEndpoint(r, id) ==
    IF r = "NotFound"
    THEN [code |-> 500, error |-> "Payment not found"]
    ELSE IF id \notin stored
    THEN [code |-> 404, error |-> "Payment not found"]
    ELSE [code |-> 200, error |-> ""]

\* ------------------------------------------------- startPaymentCheck
\* what a request of the bot to the status endpoint comes back with: the three
\* answers of the endpoint the callback tells apart, or a rejected request
StatusAnswers == {"confirmed", "expired", "pending", "error"}

StartPaymentCheck ==
    /\ bot.interval = "none"
    /\ bot' = [interval |-> "set", checkCount |-> 0, awaiting |-> 0]
    /\ ev' = Event("botStart", 0)
    /\ UNCHANGED <<now, ticks, payments, stored, calls>>

\* the timer fires: the callback counts the check and sends the request; the
\* timer does not wait for the callbacks that are still at their await
IntervalFires ==
    /\ bot.interval = "set"
    /\ bot.checkCount < MaxFirings
    /\ bot.awaiting < MaxCalls
    /\ bot' = [bot EXCEPT !.checkCount = @ + 1, !.awaiting = @ + 1]
    /\ ev' = Event("botCheck", 0)
    /\ UNCHANGED <<now, ticks, payments, stored, calls>>

\* the branches of the callback that call clearInterval
ClearsInterval(answer, checkCount) ==
    \/ answer = "confirmed"
    \/ answer = "expired"
    \/ answer = "pending" /\ checkCount >= MAX_CHECKS

\* a callback resumes after its await
StatusAnswerArrives ==
    /\ bot.awaiting > 0
    /\ \E answer \in StatusAnswers :
        /\ bot' = [bot EXCEPT
                    !.awaiting = @ - 1,
                    !.interval = IF ClearsInterval(answer, bot.checkCount)
                                 THEN "cleared" ELSE @]
        /\ ev' = [Event("botAnswer", 0) EXCEPT !.data = <<answer>>]
    /\ UNCHANGED <<now, ticks, payments, stored, calls>>

\* ------------------------------------------------------ specifications
\* several calls on one payment, the sweep and the deadlines
Next ==
    \/ Tick(TickSteps)
    \/ CreatePaymentRequest({"u1"}, {1500000000}, {0}, 1)
    \/ CleanupExpiredPayments
    \/ \E c \in Calls : StartCheck(c)
    \/ \E c \in Calls : SolscanListResponse(c, FALSE)
    \/ \E c \in Calls : SolscanDetailResponse(c, FALSE)
    \/ \E c \in Calls : RpcSignaturesResponse(c, FALSE)
    \/ \E c \in Calls : RpcTransactionResponse(c, FALSE)

Spec == Init /\ [][Next]_vars

\* several payments of several users in the store, one call at a time
NextStore ==
    \/ Tick(TickSteps)
    \/ CreatePaymentRequest({"u1", "u2"}, {1500000000}, {0}, MaxIntents)
    \/ GetUserPendingPayments({"u1", "u2"})
    \/ CleanupExpiredPayments
    \/ StartCheck(1)
    \/ SolscanListResponse(1, FALSE)
    \/ SolscanDetailResponse(1, FALSE)
    \/ RpcSignaturesResponse(1, FALSE)
    \/ RpcTransactionResponse(1, FALSE)

SpecStore == Init /\ [][NextStore]_vars

\* one payment, one call at a time, every shape of request and response
NextMatching ==
    \/ Tick(ShortSteps)
    \/ CreatePaymentRequest(UserIds, AmountsSol, ClockSkews, 1)
    \/ CleanupExpiredPayments
    \/ StartCheck(1)
    \/ SolscanListResponse(1, TRUE)
    \/ SolscanDetailResponse(1, TRUE)
    \/ RpcSignaturesResponse(1, TRUE)
    \/ RpcTransactionResponse(1, TRUE)

SpecMatching == Init /\ [][NextMatching]_vars

\* one payment, one call at a time, Solscan entries with their ledger record
NextOrder ==
    \/ CreatePaymentRequest({"u1"}, {1500000000}, {0}, 1)
    \/ StartCheck(1)
    \/ SolscanLedgerListResponse(1)
    \/ SolscanDetailResponse(1, FALSE)
    \/ RpcSignaturesResponse(1, TRUE)
    \/ RpcTransactionResponse(1, TRUE)

SpecOrder == Init /\ [][NextOrder]_vars

\* one call at a time on one payment; every response that is sent arrives and
\* is handled (the event loop runs every settled promise), a request may stay
\* without a response, and the interval timer keeps running the sweep
NextLive ==
    \/ Tick(TickSteps)
    \/ CreatePaymentRequest({"u1"}, {1500000000}, {0}, 1)
    \/ CleanupExpiredPayments
    \/ StartCheck(1)
    \/ SolscanListResponse(1, FALSE)
    \/ SolscanDetailResponse(1, FALSE)
    \/ RpcSignaturesResponse(1, FALSE)
    \/ RpcTransactionResponse(1, FALSE)
    \/ AdapterNeverResponds(1)

\* the periodic check of the bot, with every sequence of answers
NextBot ==
    \/ StartPaymentCheck
    \/ IntervalFires
    \/ StatusAnswerArrives

SpecBot == Init /\ [][NextBot]_vars

SpecLive ==
    /\ Init
    /\ [][NextLive]_vars
    /\ WF_vars(SolscanListResponse(1, FALSE))
    /\ WF_vars(SolscanDetailResponse(1, FALSE))
    /\ WF_vars(RpcSignaturesResponse(1, FALSE))
    /\ WF_vars(RpcTransactionResponse(1, FALSE))
    /\ WF_vars(CleanupExpiredPayments)

\* ------------------------------------------------------------ the claims
\* the step is the start of a checkPaymentStatus call on the payment id
Starts(id) == ev'.kind = "start" /\ ev'.id = id /\ calls[ev'.c].pc = "idle"

\* C1: once a payment is confirmed or expired its status never changes again,
\* whatever calls, sweeps and clock advances follow.
C1_StatusIsSticky ==
    [][\A id \in DOMAIN payments :
        payments[id].status \in {"confirmed", "expired"}
            => payments'[id].status = payments[id].status]_vars

\* C2: a call that starts on a pending or expired payment after expiresAt marks
\* it expired, returns false and queries neither Solscan nor the RPC node.
C2_ExpiredCheckQueriesNothing ==
    [][\A id \in stored :
        (/\ Starts(id)
         /\ payments[id].status \in {"pending", "expired"}
         /\ now > payments[id].expiresAt)
        => /\ payments'[id].status = "expired"
           /\ ev'.result = "false"
           /\ ev'.solscanCalls = 0
           /\ ev'.rpcCalls = 0
           /\ calls'[ev'.c].pc = "idle"]_vars

C2_Witness ==
    /\ ev.kind = "start"
    /\ ev.id \in stored
    /\ now > payments[ev.id].expiresAt
    /\ payments[ev.id].status = "expired"
    /\ ev.result = "false"
    /\ ev.solscanCalls = 0
    /\ ev.rpcCalls = 0

\* C3: when a Solscan request of a call fails, the call queries the RPC node;
\* when the RPC node fails too, the call returns false and the payment stays
\* pending.
C3_FailedIndexerFallsBackToLedger ==
    [][/\ ev'.kind = "solscanFail"
            => /\ calls'[ev'.c].pc = "rpcSigs"
               /\ ev'.rpcCalls = 1
               /\ ev'.result = "none"
       /\ ev'.kind = "rpcFail"
            => /\ ev'.result = "false"
               /\ payments'[ev'.id].status = "pending"]_vars

\* C7: the sweep removes a payment only if it is confirmed or expired and older
\* than the retention window, never a pending one, and changes no payment.
C7_SweepRemovesOnlyOldTerminal ==
    [][ev'.kind = "cleanup" =>
        /\ payments' = payments
        /\ stored' \subseteq stored
        /\ \A id \in stored \ stored' :
            /\ payments[id].status \in {"confirmed", "expired"}
            /\ now - payments[id].createdAt > RETENTION]_vars

C7_Witness ==
    /\ ev.kind = "cleanup"
    /\ \E i \in DOMAIN payments, j \in stored :
        /\ i \notin stored
        /\ payments[i].status = "expired"
        /\ payments[j].status = "pending"
        /\ now - payments[j].createdAt > RETENTION

\* C8: a call that starts on a confirmed payment returns true, queries neither
\* adapter and leaves the payment and the store as they were.
C8_ConfirmedCheckIsNoOp ==
    [][\A id \in stored :
        (Starts(id) /\ payments[id].status = "confirmed")
        => /\ ev'.result = "true"
           /\ ev'.solscanCalls = 0
           /\ ev'.rpcCalls = 0
           /\ calls'[ev'.c].pc = "idle"
           /\ payments' = payments
           /\ stored' = stored]_vars

C8_Witness ==
    /\ ev.kind = "start"
    /\ ev.id \in stored
    /\ payments[ev.id].status = "confirmed"
    /\ now > payments[ev.id].expiresAt
    /\ ev.result = "true"

\* the payment of the call the last step belongs to
EvPayment == payments[ev.id]
ScanKinds == {"solscanList", "solscanDetail", "rpcTx"}

\* the last step accepted a candidate as the match
ScanAccepted == ev.kind \in ScanKinds /\ ev.result = "true"

\* block time (seconds) of the candidate the last step accepted
AcceptedBlockTime ==
    IF ev.kind = "solscanList" THEN ev.data[EvPayment.transactionSignature].blockTime
    ELSE IF ev.kind = "solscanDetail" THEN ev.data[1].tx.blockTime
    ELSE ev.data[1].sig.blockTime

\* the amounts the accepted candidate moves to the treasury, in lamports
AcceptedReceived ==
    IF ev.kind = "solscanList"
    THEN LET tr == ev.data[EvPayment.transactionSignature].tokenTransfers
         IN  {tr[i].amount : i \in {j \in DOMAIN tr : tr[j].destination = Treasury}}
    ELSE IF ev.kind = "solscanDetail"
    THEN LET ins == ev.data[1].detail.parsedInstruction
         IN  {ins[i].params.amount :
                i \in {j \in DOMAIN ins : /\ ins[j].type = "transfer"
                                          /\ ins[j].params.destination = Treasury}}
    ELSE LET acc == ev.data[1].tx.accounts
         IN  {acc[i].change : i \in {j \in DOMAIN acc : acc[j].key = Treasury}}

\* C4: a candidate whose block time is before createdAt is never accepted.
C4_NoMatchBeforeCreation ==
    ScanAccepted => AcceptedBlockTime * MS_PER_SEC >= EvPayment.createdAt

\* C5: a candidate is accepted only if the amount it moves to the treasury is
\* within 1000 lamports of the expected amount.
C5_NoMatchBeyondTolerance ==
    ScanAccepted =>
        \E a \in AcceptedReceived : Abs(a - EvPayment.amountLamports) <= TOLERANCE

\* distances between the amount received and the expected amount
AtTolerance(d) == d = TOLERANCE
JustBelowTolerance(d) == d = TOLERANCE - 1
WithinTolerance(d) == d <= TOLERANCE
BelowTolerance(d) == d < TOLERANCE

\* the RPC transaction of the last step is a successful one that changes the
\* treasury balance by an amount at a distance from the expected amount that
\* satisfies within(_)
RpcCandidate(within(_)) ==
    /\ ev.kind = "rpcTx"
    /\ ev.data[1].sig.blockTime * MS_PER_SEC >= EvPayment.createdAt
    /\ ev.data[1].tx.present
    /\ ~ev.data[1].tx.err
    /\ \E i \in DOMAIN ev.data[1].tx.accounts :
        /\ ev.data[1].tx.accounts[i].key = Treasury
        /\ within(Abs(ev.data[1].tx.accounts[i].change - EvPayment.amountLamports))

\* entry k of the Solscan list of the last step is a successful one, dated at or
\* after createdAt, with a token transfer to the treasury at such a distance
TokenCandidate(k, within(_)) ==
    /\ ev.kind = "solscanList"
    /\ k \in DOMAIN ev.data
    /\ ev.data[k].status = "Success"
    /\ ev.data[k].blockTime * MS_PER_SEC >= EvPayment.createdAt
    /\ \E i \in DOMAIN ev.data[k].tokenTransfers :
        /\ ev.data[k].tokenTransfers[i].destination = Treasury
        /\ within(Abs(ev.data[k].tokenTransfers[i].amount - EvPayment.amountLamports))

\* the last step accepted the candidate with reference ref
AcceptedRef(ref) ==
    /\ ev.result = "true"
    /\ EvPayment.status = "confirmed"
    /\ EvPayment.transactionSignature = ref

\* the last step accepted the candidate ref or one delivered before it
AcceptedUpTo(ref) ==
    /\ ev.result = "true"
    /\ EvPayment.status = "confirmed"
    /\ EvPayment.transactionSignature \in 1..ref

DetailCandidate(within(_)) ==
    /\ ev.kind = "solscanDetail"
    /\ ev.data[1].detail.status = "Success"
    /\ ev.data[1].tx.blockTime * MS_PER_SEC >= EvPayment.createdAt
    /\ \A i \in DOMAIN ev.data[1].detail.signer : ev.data[1].detail.signer[i] # Treasury
    /\ \E i \in DOMAIN ev.data[1].detail.parsedInstruction :
        LET ins == ev.data[1].detail.parsedInstruction[i] IN
        /\ ins.type = "transfer"
        /\ ins.params.destination = Treasury
        /\ within(Abs(ins.params.amount - EvPayment.amountLamports))

\* C9 as stated: every successful candidate dated at or after createdAt that
\* moves an amount within 1000 lamports of the expected one to the treasury
\* makes the call return true and is recorded as the matching transaction.
C9_EligibleCandidateConfirms ==
    /\ RpcCandidate(WithinTolerance)
        => AcceptedRef(ev.data[1].sig.signature)
    /\ DetailCandidate(WithinTolerance) => AcceptedRef(ev.data[1].tx.txHash)
    /\ \A k \in 1..MaxTxs :
        TokenCandidate(k, WithinTolerance) => AcceptedRef(k)

\* C9 as amended: such a candidate at a distance below 1000 lamports makes the
\* call return true, and it is recorded unless a candidate delivered before it
\* in the same response was accepted.
C9_FirstEligibleCandidateConfirms ==
    /\ RpcCandidate(BelowTolerance)
        => AcceptedRef(ev.data[1].sig.signature)
    /\ DetailCandidate(BelowTolerance) => AcceptedRef(ev.data[1].tx.txHash)
    /\ \A k \in 1..MaxTxs :
        TokenCandidate(k, BelowTolerance) => AcceptedUpTo(k)

C9_Witness ==
    /\ ev.kind = "solscanList"
    /\ Len(ev.data) = 2
    /\ TokenCandidate(2, BelowTolerance)
    /\ ~TokenTransferMatch(ev.data[1], EvPayment)
    /\ AcceptedRef(2)

\* C10: every payment createPaymentRequest stores is pending and expires
\* exactly 30 minutes after createdAt.
C10_ExpiresExactlyTtlAfterCreation ==
    ev.kind = "create" =>
        /\ ev.id \in stored
        /\ EvPayment.status = "pending"
        /\ EvPayment.expiresAt - EvPayment.createdAt = TTL

\* C11: createPaymentRequest stores a payment only for a present userId and an
\* amountSol above zero; a rejected request adds no payment, leaves the store
\* and every payment as they were and sends no adapter request.
C11_InvalidRequestIsRejected ==
    [][/\ ev'.kind = "create"
            => /\ payments'[ev'.id].userId # ""
               /\ payments'[ev'.id].amountLamports > 0
       /\ ev'.kind = "createError"
            => /\ ev'.data[1].userId = "" \/ ev'.data[1].amountSol <= 0
               /\ payments' = payments
               /\ stored' = stored
               /\ calls' = calls]_vars

C11_Witness ==
    /\ ev.kind = "createError"
    /\ ev.data[1].userId # ""
    /\ ev.data[1].amountSol = 0
    /\ stored = {}

\* C12: a call that starts on an id that is not in the store throws 'Payment
\* not found', sends no request to either adapter and leaves the store and
\* every payment as they were.
C12_UnknownIdIsNotFound ==
    [][\A id \in 1..(Len(payments) + 1) :
        (Starts(id) /\ id \notin stored)
        => /\ ev'.result = "NotFound"
           /\ ev'.solscanCalls = 0
           /\ ev'.rpcCalls = 0
           /\ calls'[ev'.c].pc = "idle"
           /\ stored' = stored
           /\ payments' = payments]_vars

\* the id was in the store once and the sweep removed it
C12_Witness ==
    /\ ev.kind = "start"
    /\ ev.id \in DOMAIN payments
    /\ ev.id \notin stored
    /\ ev.result = "NotFound"

\* C13: every stored payment has confirmedAt and transactionSignature set if
\* it is confirmed, and neither of them set if it is pending or expired.
C13_ConfirmationFieldsIffConfirmed ==
    \A id \in stored :
        /\ payments[id].status = "confirmed" <=> payments[id].confirmedAt # NoTime
        /\ payments[id].status = "confirmed" <=> payments[id].transactionSignature # NoSig

\* a match has just been written while another call is still in flight
C13_Witness ==
    /\ ScanAccepted
    /\ ev.id \in stored
    /\ EvPayment.status = "confirmed"
    /\ EvPayment.confirmedAt = now
    /\ EvPayment.transactionSignature # NoSig
    /\ \E c \in Calls : calls[c].pc # "idle" /\ calls[c].paymentId = ev.id

\* C14: getUserPendingPayments(userId) returns one entry, under its own id and
\* with its own fields, for exactly the stored payments of that user whose
\* status is pending, and changes neither the store nor any payment.
C14_ListPendingIsExactAndPure ==
    [][ev'.kind = "pending" =>
        LET userId == ev'.data[1].userId
            list == ev'.data[1].list
        IN  /\ {list[k].paymentId : k \in DOMAIN list}
                    = {id \in stored : /\ payments[id].userId = userId
                                        /\ payments[id].status = "pending"}
            /\ \A j, k \in DOMAIN list : list[j].paymentId = list[k].paymentId => j = k
            /\ \A k \in DOMAIN list :
                    LET p == payments[list[k].paymentId]
                    IN  /\ list[k].userId = p.userId
                        /\ list[k].amountSol = p.amountLamports
                        /\ list[k].createdAt = p.createdAt
                        /\ list[k].expiresAt = p.expiresAt
            /\ payments' = payments
            /\ stored' = stored
            /\ calls' = calls]_vars

\* the user has a pending payment, listed, and a stored one that is not pending
C14_Witness ==
    /\ ev.kind = "pending"
    /\ Len(ev.data[1].list) = 1
    /\ \E id \in stored :
        /\ payments[id].userId = ev.data[1].userId
        /\ payments[id].status \in {"expired", "confirmed"}

\* C15: a candidate is accepted only if it moves an amount above zero to the
\* treasury (in the RPC path: only if it increases the treasury balance).
C15_NoMatchWithoutIncrease ==
    ScanAccepted => \E a \in AcceptedReceived : a > 0

\* a Solscan entry that passes the temporal filter and whose token transfers or
\* whose ledger record pass the amount and direction filters
SolscanEligible(tx, p) ==
    /\ SolscanRecent(tx.blockTime, p)
    /\ TokenTransferMatch(tx, p) \/ DetailMatch(tx.detail, p)

\* the candidates a call has still to examine are in delivery order
TodoInDeliveryOrder ==
    \A c \in Calls : \A i, j \in DOMAIN calls[c].todo :
        i < j => IF calls[c].pc = "rpcTx"
                 THEN calls[c].todo[i].signature < calls[c].todo[j].signature
                 ELSE calls[c].todo[i].txHash < calls[c].todo[j].txHash

\* C16: the transaction recorded as the match is the first eligible one in
\* delivery order: a scan goes past a candidate only if it is not eligible,
\* and no entry delivered before the recorded one is eligible.
C16_FirstEligibleIsRecorded ==
    /\ TodoInDeliveryOrder
    /\ (ev.kind = "rpcTx" /\ ev.result # "true")
            => ~RpcTxMatch(ev.data[1].tx, EvPayment)
    /\ (ev.kind = "solscanDetail" /\ ev.result # "true")
            => ~DetailMatch(ev.data[1].detail, EvPayment)
    /\ (ev.kind = "solscanList" /\ ev.result # "true")
            => \A k \in DOMAIN ev.data : ~TokenTransferMatch(ev.data[k], EvPayment)
    /\ (ev.kind = "solscanList" /\ ev.result = "true")
            => \A j \in 1..(EvPayment.transactionSignature - 1) :
                    ~SolscanEligible(ev.data[j], EvPayment)

\* C17: the record of a confirmed payment (status, confirmedAt,
\* transactionSignature) is never written again, whatever calls are in flight.
C17_ConfirmedRecordIsNeverRewritten ==
    [][\A id \in DOMAIN payments :
        payments[id].status = "confirmed" => payments'[id] = payments[id]]_vars

\* C18: every checkPaymentStatus call that has started returns, also when a
\* request it sent is never answered.
C18_EveryCallReturns ==
    \A c \in Calls : (calls[c].pc # "idle") ~> (calls[c].pc = "idle")

\* C19: a call throws 'Payment not found' only at its start, on an id that is
\* not in the store then, and a call that returns true leaves the payment in
\* the store with status confirmed.
C19_SweepNeverOrphansACheck ==
    /\ ev.result = "NotFound" => ev.kind = "start"
    /\ ev.result = "true" => ev.id \in stored /\ EvPayment.status = "confirmed"

\* the step ends a call without a match
EndsUnmatched == calls'[ev'.c].pc = "idle" /\ ev'.result # "true"

\* C20: a call that ends because both adapters failed and a call that ends
\* because the responses held no match give the same observation: the result
\* false and the payment record as it was; the failure of Solscan that is
\* followed by the RPC request changes no record either.
C20_InconclusiveLooksLikeNotPaid ==
    [][/\ (ev'.kind = "rpcFail" /\ EndsUnmatched)
            => ev'.result = "false" /\ payments' = payments /\ stored' = stored
       /\ (ev'.kind \in ScanKinds \cup {"rpcSigs"} /\ EndsUnmatched)
            => ev'.result = "false" /\ payments' = payments /\ stored' = stored
       /\ (ev'.kind = "solscanFail" /\ ev'.result = "none")
            => payments' = payments /\ stored' = stored]_vars

\* both adapters were queried and failed; the payment is still pending
C20_Witness ==
    /\ ev.kind = "rpcFail"
    /\ ev.solscanCalls >= 1
    /\ ev.rpcCalls >= 1
    /\ ev.result = "false"
    /\ ev.id \in stored
    /\ EvPayment.status = "pending"

\* the step belongs to a checkPaymentStatus call on the payment id
CheckStepOn(id) == ev'.c # 0 /\ ev'.id = id

\* C21: a step that is not a step of a checkPaymentStatus call on a pending
\* payment (the sweep, the clock, any other request) leaves the payment in the
\* store, pending and unchanged, whatever its age, and getUserPendingPayments of
\* its user lists it.
C21_UnpolledIntentStaysPending ==
    [][\A id \in stored :
        (payments[id].status = "pending" /\ ~CheckStepOn(id))
        => /\ id \in stored'
           /\ payments'[id] = payments[id]
           /\ (ev'.kind = "pending" /\ ev'.data[1].userId = payments[id].userId)
                => \E k \in DOMAIN ev'.data[1].list :
                        ev'.data[1].list[k].paymentId = id]_vars

\* a pending payment older than the retention window is still listed
C21_Witness ==
    /\ ev.kind = "pending"
    /\ \E k \in DOMAIN ev.data[1].list :
        LET id == ev.data[1].list[k].paymentId
        IN  /\ id \in stored
            /\ payments[id].status = "pending"
            /\ now > payments[id].expiresAt
            /\ now - payments[id].createdAt > RETENTION

\* the payment id is in the store, confirmed or expired, and older than 24 hours
Removable(id) ==
    /\ id \in stored
    /\ payments[id].status \in {"confirmed", "expired"}
    /\ now - payments[id].createdAt > RETENTION

\* C22: a payment leaves the store only in a step of the sweep; a sweep removes
\* every confirmed or expired payment older than 24 hours; and, the sweep
\* running again and again, such a payment is eventually out of the store.
C22_TerminalIntentIsSwept ==
    /\ [][\A id \in stored :
            /\ id \notin stored' => ev'.kind = "cleanup"
            /\ (ev'.kind = "cleanup" /\ Removable(id)) => id \notin stored']_vars
    /\ \A id \in 1..MaxIntents : Removable(id) ~> (id \notin stored)

\* the sweep has removed a confirmed payment
C22_Witness ==
    /\ ev.kind = "cleanup"
    /\ \E id \in DOMAIN payments :
        /\ id \notin stored
        /\ payments[id].status = "confirmed"
        /\ now - payments[id].createdAt > RETENTION

\* C23: a call sends getSignaturesForAddress only in the step in which a
\* Solscan request of that call has failed, only once, and never in a step that
\* handles a Solscan response; every RPC request of a call comes after a
\* Solscan request of that call.
C23_LedgerOnlyAfterIndexerFailure ==
    [][\A c \in Calls :
        /\ calls'[c].rpcCalls > 0 => calls'[c].solscanCalls > 0
        /\ (calls'[c].pc = "rpcSigs" /\ ev'.c = c)
            => /\ calls[c].pc \in {"solscanList", "solscanDetail"}
               /\ ev'.kind = "solscanFail"
               /\ calls[c].rpcCalls = 0
               /\ calls'[c].rpcCalls = 1
        /\ (ev'.c = c /\ ev'.kind \in {"solscanList", "solscanDetail"})
            => ev'.rpcCalls = 0 /\ calls'[c].pc \in {"idle", "solscanDetail"}
        /\ (ev'.c = c /\ calls[c].pc \in {"rpcSigs", "rpcTx"})
            => calls'[c].pc \in {"idle", "rpcTx"}]_vars

\* a call that asked Solscan for the list and a detail, then the RPC node for
\* the signatures and a transaction
C23_Witness ==
    /\ ev.kind = "rpcTx"
    /\ ev.solscanCalls = 2
    /\ ev.rpcCalls = 2

\* the candidate the last step accepted is one its source reports as successful
AcceptedSucceeded ==
    IF ev.kind = "solscanList"
    THEN ev.data[EvPayment.transactionSignature].status = "Success"
    ELSE IF ev.kind = "solscanDetail" THEN ev.data[1].detail.status = "Success"
    ELSE ev.data[1].tx.present /\ ~ev.data[1].tx.err

\* C24: a candidate that its source reports as failed (no transaction or no
\* meta, meta.err set, a Solscan status other than Success) is never accepted.
C24_FailedCandidateNeverConfirms ==
    ScanAccepted => AcceptedSucceeded

\* a failed transaction that pays the exact amount to the treasury was examined
\* and passed over
C24_Witness ==
    /\ ev.kind = "rpcTx"
    /\ ev.data[1].tx.present
    /\ ev.data[1].tx.err
    /\ \E i \in DOMAIN ev.data[1].tx.accounts :
        /\ ev.data[1].tx.accounts[i].key = Treasury
        /\ ev.data[1].tx.accounts[i].change = EvPayment.amountLamports
    /\ ev.result # "true"
    /\ EvPayment.status = "pending"

\* C25: the periodic check started by startPaymentCheck issues at most 30
\* status checks for a payment, whatever the answers are: the interval is
\* cleared by the time the thirtieth check has been answered.
C25_AtMostThirtyChecks ==
    /\ bot.checkCount <= MAX_CHECKS
    /\ (bot.checkCount = MAX_CHECKS /\ bot.awaiting = 0) => bot.interval = "cleared"

\* C26: the status endpoint answers a request for an id that is not in the
\* store with 404 'Payment not found'.
C26_UnknownIdAnswers404 ==
    (ev.kind = "start" /\ ev.c # 0 /\ ev.id \notin stored)
    => StatusEndpoint(ev.result, ev.id) = [code |-> 404, error |-> "Payment not found"]
====
